---- MODULE Spec2Model ----
(***************************************************************************)
(* Model of src/raftstore/store/engine.rs: the Snapshot / SyncSnapshot     *)
(* wrappers, the Peekable, Iterable and Mutable traits and their impls for *)
(* the live DB handle and for Snapshot.                                    *)
(*                                                                         *)
(* The storage engine (the rocksdb crate) is an external collaborator.  It *)
(* is modelled as a write log with sequence numbers: a point-in-time       *)
(* marker is the sequence number current when it was taken, a read with a  *)
(* marker sees the newest version of a key whose sequence number does not  *)
(* exceed the marker, a read without one sees the newest version, and an   *)
(* iterator is pinned to the sequence number current at its creation.      *)
(* Keys and values are byte strings (sequences of 0..255) ordered by the   *)
(* engine's bytewise comparator.                                           *)
(***************************************************************************)
EXTENDS Integers, Sequences, FiniteSets

VARIABLES
    log,      \* engine: the write history, one record per put / delete
    markers,  \* engine: the point-in-time markers handed out by unsafe_snap
    snaps,    \* the Snapshot objects (struct Snapshot, Arc<Snapshot>)
    live,     \* history: the store contents as a map, updated at each write
    view,     \* history: per Snapshot, the map `live` at its creation
    scan,     \* the scan in progress (scan / scan_cf and scan_impl's loop);
              \* its fields base and at are history: the data source when
              \* the scan began, the length of log at each call of f
    ret,      \* the result of the last read, seek or failed call
    db        \* the store behind its Arc<DB>: the handles held outside the
              \* Snapshots, whether it is open, and (history) whether a
              \* marker was ever released against it after it was destroyed

vars == <<log, markers, snaps, live, view, scan, ret, db>>

----------------------------------------------------------------------------
(* Bounds of the model *)

MaxWrites == 1
MaxSnaps == 2
MaxOwners == 2
MaxValLen == 9
MaxHandles == 2

----------------------------------------------------------------------------
(* Option and Result *)

None == <<>>
Some(x) == <<x>>
IsSome(o) == o # <<>>
Unwrap(o) == o[1]

Ok(x) == [ok |-> TRUE, val |-> x, err |-> ""]
Err(e) == [ok |-> FALSE, val |-> <<>>, err |-> e]

----------------------------------------------------------------------------
(* Byte strings *)

RECURSIVE BytesLess(_, _)
BytesLess(a, b) ==
    IF b = <<>> THEN FALSE
    ELSE IF a = <<>> THEN TRUE
    ELSE IF Head(a) # Head(b) THEN Head(a) < Head(b)
    ELSE BytesLess(Tail(a), Tail(b))

BytesLeq(a, b) == a = b \/ BytesLess(a, b)

\* the keys and values of the tests: b"a1", b"a2", b"a3", b"v1", b"v2"
KeyA1 == <<97, 49>>
KeyA2 == <<97, 50>>
KeyA3 == <<97, 51>>
KeyEmpty == <<>>
KeyMax == <<255, 255>>
ValV1 == <<118, 49>>
ValV2 == <<118, 50>>

StoreKeys == {KeyA1, KeyA2, KeyA3}
ArgKeys == {KeyEmpty, KeyA1, KeyA2, KeyA3, KeyMax}
Values == {ValV1, ValV2}

\* the column families of the engine the tests open, and a name it lacks
CfDefault == "default"
CfNames == {"default", "cf"}
CfArgs == {"cf", "foo"}

----------------------------------------------------------------------------
(* The storage engine (rocksdb::DB), as far as engine.rs uses it *)

\* A log record: put (val = Some(bytes)) or delete (val = None) of key in cf.
Rec(cf, key, val) == [cf |-> cf, key |-> key, val |-> val]

\* The version of (cf, key) a read at sequence number seq sees.
EngineRead(cf, key, seq) ==
    LET idx == {i \in 1..seq : log[i].cf = cf /\ log[i].key = key}
    IN  IF idx = {} THEN None
        ELSE log[CHOOSE i \in idx : \A j \in idx : j <= i].val

\* The keys of cf that exist at sequence number seq.
EngineKeys(cf, seq) ==
    {k \in {log[i].key : i \in 1..seq} : IsSome(EngineRead(cf, k, seq))}

\* rocksdb::ReadOptions::new()
ReadOptions_new ==
    [fill_cache |-> TRUE, total_order_seek |-> FALSE,
     prefix_same_as_start |-> FALSE, iterate_upper_bound |-> None,
     snapshot |-> None]

\* The sequence number a read with these options reads at.
ReadSeq(opts) ==
    IF IsSome(opts.snapshot) THEN markers[Unwrap(opts.snapshot)].seq
    ELSE Len(log)

\* DB::get / get_cf / get_opt / get_cf_opt
EngineGetCfOpt(handle, key, opts) == EngineRead(handle, key, ReadSeq(opts))

\* DBIterator::new / new_cf / DB::iter_opt: an unpositioned cursor over the
\* column family, pinned to the sequence number the options read at.
DBIterator_new(handle, opts) ==
    [cf |-> handle, seq |-> ReadSeq(opts), ub |-> opts.iterate_upper_bound,
     pos |-> None, status |-> "ok"]

\* The smallest key of the set, by the bytewise comparator.
MinKey(S) == CHOOSE k \in S : \A j \in S : BytesLeq(k, j)

\* The cursor's keys: those of its column family at its sequence number,
\* below the exclusive upper bound when one is set.
IterKeys(it) ==
    {k \in EngineKeys(it.cf, it.seq) :
        ~IsSome(it.ub) \/ BytesLess(k, Unwrap(it.ub))}

\* DBIterator::seek: the first key >= key.
DBIterator_seek(it, key) ==
    LET c == {k \in IterKeys(it) : BytesLeq(key, k)}
    IN  [it EXCEPT !.pos = IF c = {} THEN None ELSE Some(MinKey(c))]

\* DBIterator::valid
DBIterator_valid(it) == IsSome(it.pos)

\* DBIterator::next: the first key after the current one.
DBIterator_next(it) ==
    LET c == {k \in IterKeys(it) : BytesLess(Unwrap(it.pos), k)}
    IN  [it EXCEPT !.pos = IF c = {} THEN None ELSE Some(MinKey(c))]

\* DBIterator::next when the engine fails to advance (an I/O error): the
\* cursor is no longer valid and next returns false
DBIterator_next_failed(it) == [it EXCEPT !.pos = None, !.status = "error"]

\* DBIterator::key / value / kv
DBIterator_key(it) == Unwrap(it.pos)
DBIterator_value(it) == Unwrap(EngineRead(it.cf, Unwrap(it.pos), it.seq))
DBIterator_kv(it) ==
    IF DBIterator_valid(it)
    THEN Some(<<DBIterator_key(it), DBIterator_value(it)>>)
    ELSE None

\* util::rocksdb::get_cf_handle: the handle of a column family of the
\* store, an error for a name the store does not have.
get_cf_handle(cf) ==
    IF cf \in CfNames THEN Ok(cf) ELSE Err("cf not found")

----------------------------------------------------------------------------
(* IterOption *)

TotalOrder == "TotalOrder"
Prefix == "Prefix"

IterOption_new(upper_bound, fill_cache) ==
    [fill_cache |-> fill_cache, prefix_same_as_start |-> FALSE,
     upper_bound |-> upper_bound, seek_mode |-> TotalOrder]

IterOption_default ==
    [fill_cache |-> TRUE, prefix_same_as_start |-> FALSE,
     upper_bound |-> None, seek_mode |-> TotalOrder]

use_prefix_seek(self) == [self EXCEPT !.seek_mode = Prefix]

total_order_seek_used(self) == self.seek_mode = TotalOrder

upper_bound(self) == self.upper_bound

\* a setter that also puts the configuration back in total order
set_upper_bound_total(self, bound) ==
    [self EXCEPT !.upper_bound = Some(bound), !.seek_mode = TotalOrder]

set_upper_bound(self, bound) == [self EXCEPT !.upper_bound = Some(bound)]

set_prefix_same_as_start(self, enable) ==
    [self EXCEPT !.prefix_same_as_start = enable]

\* options that get the upper bound only when prefix_same_as_start was
\* not applied
build_read_opts_exclusive(self) ==
    LET o1 == [ReadOptions_new EXCEPT !.fill_cache = self.fill_cache]
        o2 == IF total_order_seek_used(self)
              THEN [o1 EXCEPT !.total_order_seek = TRUE]
              ELSE IF self.prefix_same_as_start
                   THEN [o1 EXCEPT !.prefix_same_as_start = TRUE]
                   ELSE o1
    IN  IF IsSome(self.upper_bound) /\ ~o2.prefix_same_as_start
        THEN [o2 EXCEPT !.iterate_upper_bound = self.upper_bound]
        ELSE o2

build_read_opts(self) ==
    LET o1 == [ReadOptions_new EXCEPT !.fill_cache = self.fill_cache]
        o2 == IF total_order_seek_used(self)
              THEN [o1 EXCEPT !.total_order_seek = TRUE]
              ELSE IF self.prefix_same_as_start
                   THEN [o1 EXCEPT !.prefix_same_as_start = TRUE]
                   ELSE o1
    IN  IF IsSome(self.upper_bound)
        THEN [o2 EXCEPT !.iterate_upper_bound = self.upper_bound]
        ELSE o2

----------------------------------------------------------------------------
(* Fixed-width integers.  A u64 is its four 16-bit limbs, most significant
   first; an i64 is a sign and the limbs of its magnitude. *)

Limb == 256 * 256

\* byteorder::BigEndian::read_u64 on a slice of at least 8 bytes
BigEndian_read_u64(b) ==
    <<b[1] * 256 + b[2], b[3] * 256 + b[4],
      b[5] * 256 + b[6], b[7] * 256 + b[8]>>

\* byteorder::BigEndian::write_u64 into a buffer of 8 bytes
BigEndian_write_u64(n) ==
    <<n[1] \div 256, n[1] % 256, n[2] \div 256, n[2] % 256,
      n[3] \div 256, n[3] % 256, n[4] \div 256, n[4] % 256>>

\* n + 1 modulo 2^64
U64Succ(n) ==
    LET c4 == IF n[4] + 1 = Limb THEN 1 ELSE 0
        c3 == IF n[3] + c4 = Limb THEN 1 ELSE 0
        c2 == IF n[2] + c3 = Limb THEN 1 ELSE 0
    IN  <<(n[1] + c2) % Limb, (n[2] + c3) % Limb,
          (n[3] + c4) % Limb, (n[4] + 1) % Limb>>

\* 2^64 - n modulo 2^64
U64Neg(n) ==
    U64Succ(<<Limb - 1 - n[1], Limb - 1 - n[2],
              Limb - 1 - n[3], Limb - 1 - n[4]>>)

\* `n as i64`: the two's-complement reading of the same 64 bits
u64_as_i64(n) ==
    IF n[1] >= Limb \div 2
    THEN [neg |-> TRUE, mag |-> U64Neg(n)]
    ELSE [neg |-> FALSE, mag |-> n]

\* `n as u64`: the same 64 bits read as unsigned
i64_as_u64(n) == IF n.neg THEN U64Neg(n.mag) ELSE n.mag

----------------------------------------------------------------------------
(* Structured messages.  The protobuf codec is external; the message of
   the tests, metapb::Region with only its id set, is the two bytes
   <<8, id>> (field 1, varint) for 0 < id < 128 and the empty string for
   id = 0.  Every other byte string of the model fails to parse. *)

merge_from_bytes(b) ==
    IF b = <<>> THEN Ok([id |-> 0])
    ELSE IF Len(b) = 2 /\ b[1] = 8 /\ b[2] \in 1..127 THEN Ok([id |-> b[2]])
    ELSE Err("protobuf")

write_to_bytes(m) == IF m.id = 0 THEN <<>> ELSE <<8, m.id>>

----------------------------------------------------------------------------
(* impl Peekable for DB, impl Peekable for Snapshot.  `self` is 0 for the
   live handle and the index in snaps of a Snapshot otherwise. *)

DBHandle == 0

\* a read that keeps the newest marker handed out in its options
DB_get_value_pinned(key) ==
    Ok(EngineGetCfOpt(CfDefault, key,
        IF markers = <<>> THEN ReadOptions_new
        ELSE [ReadOptions_new EXCEPT !.snapshot = Some(Len(markers))]))

DB_get_value(key) ==
    Ok(EngineGetCfOpt(CfDefault, key, ReadOptions_new))

\* a lookup that resolves the column family and then reads the default space
DB_get_value_cf_shared(cf, key) ==
    LET handle == get_cf_handle(cf)
    IN  IF ~handle.ok THEN Err(handle.err)
        ELSE Ok(EngineGetCfOpt(CfDefault, key, ReadOptions_new))

DB_get_value_cf(cf, key) ==
    LET handle == get_cf_handle(cf)
    IN  IF ~handle.ok THEN Err(handle.err)
        ELSE Ok(EngineGetCfOpt(handle.val, key, ReadOptions_new))

\* opt.set_snapshot(&self.snap)
set_snapshot(opt, snap) == [opt EXCEPT !.snapshot = Some(snap)]

\* a read that never calls opt.set_snapshot
Snapshot_get_value_unset(self, key) ==
    Ok(EngineGetCfOpt(CfDefault, key, ReadOptions_new))

Snapshot_get_value(self, key) ==
    LET opt == set_snapshot(ReadOptions_new, snaps[self].snap)
    IN  Ok(EngineGetCfOpt(CfDefault, key, opt))

Snapshot_get_value_cf(self, cf, key) ==
    LET handle == get_cf_handle(cf)
        opt == set_snapshot(ReadOptions_new, snaps[self].snap)
    IN  IF ~handle.ok THEN Err(handle.err)
        ELSE Ok(EngineGetCfOpt(handle.val, key, opt))

Snapshot_cf_handle(self, cf) == get_cf_handle(cf)

get_value(self, key) ==
    IF self = DBHandle THEN DB_get_value(key)
    ELSE Snapshot_get_value(self, key)

get_value_cf(self, cf, key) ==
    IF self = DBHandle THEN DB_get_value_cf(cf, key)
    ELSE Snapshot_get_value_cf(self, cf, key)

(* trait Peekable: the provided methods *)

\* the common tail of get_msg and get_msg_cf
parse_msg(value) ==
    IF ~value.ok THEN value
    ELSE IF ~IsSome(value.val) THEN Ok(None)
    ELSE LET m == merge_from_bytes(Unwrap(value.val))
         IN  IF ~m.ok THEN Err(m.err) ELSE Ok(Some(m.val))

get_msg(self, key) == parse_msg(get_value(self, key))

get_msg_cf(self, cf, key) == parse_msg(get_value_cf(self, cf, key))

\* a decoder that only refuses values shorter than 8 bytes
get_u64_short(self, key) ==
    LET value == get_value(self, key)
    IN  IF ~value.ok THEN value
        ELSE IF ~IsSome(value.val) THEN Ok(None)
        ELSE IF Len(Unwrap(value.val)) < 8 THEN Err("need 8 bytes")
        ELSE Ok(Some(BigEndian_read_u64(Unwrap(value.val))))

get_u64(self, key) ==
    LET value == get_value(self, key)
    IN  IF ~value.ok THEN value
        ELSE IF ~IsSome(value.val) THEN Ok(None)
        ELSE IF Len(Unwrap(value.val)) # 8 THEN Err("need 8 bytes")
        ELSE Ok(Some(BigEndian_read_u64(Unwrap(value.val))))

get_i64(self, key) ==
    LET r == get_u64(self, key)
    IN  IF ~r.ok THEN r
        ELSE IF ~IsSome(r.val) THEN Ok(None)
        ELSE Ok(Some(u64_as_i64(Unwrap(r.val))))

----------------------------------------------------------------------------
(* impl Iterable for DB, impl Iterable for Snapshot *)

DB_new_iterator(iter_opt) ==
    DBIterator_new(CfDefault, build_read_opts(iter_opt))

DB_new_iterator_cf(cf, iter_opt) ==
    LET handle == get_cf_handle(cf)
    IN  IF ~handle.ok THEN Err(handle.err)
        ELSE Ok(DBIterator_new(handle.val, build_read_opts(iter_opt)))

\* a cursor whose options never get the marker
Snapshot_new_iterator_unset(self, iter_opt) ==
    DBIterator_new(CfDefault, build_read_opts(iter_opt))

Snapshot_new_iterator(self, iter_opt) ==
    LET opt == set_snapshot(build_read_opts(iter_opt), snaps[self].snap)
    IN  DBIterator_new(CfDefault, opt)

\* a cursor that falls back to the default space when the column family
\* does not resolve
Snapshot_new_iterator_cf_default(self, cf, iter_opt) ==
    LET handle == get_cf_handle(cf)
        opt == set_snapshot(build_read_opts(iter_opt), snaps[self].snap)
    IN  Ok(DBIterator_new(IF handle.ok THEN handle.val ELSE CfDefault, opt))

Snapshot_new_iterator_cf(self, cf, iter_opt) ==
    LET handle == get_cf_handle(cf)
        opt == set_snapshot(build_read_opts(iter_opt), snaps[self].snap)
    IN  IF ~handle.ok THEN Err(handle.err)
        ELSE Ok(DBIterator_new(handle.val, opt))

new_iterator(self, iter_opt) ==
    IF self = DBHandle THEN DB_new_iterator(iter_opt)
    ELSE Snapshot_new_iterator(self, iter_opt)

new_iterator_cf(self, cf, iter_opt) ==
    IF self = DBHandle THEN DB_new_iterator_cf(cf, iter_opt)
    ELSE Snapshot_new_iterator_cf(self, cf, iter_opt)

(* trait Iterable: the provided methods *)

\* a seek that steps past the key it was given
seek_past(self, key) ==
    LET iter == DBIterator_seek(new_iterator(self, IterOption_default), key)
    IN  Ok(DBIterator_kv(
            IF DBIterator_valid(iter) /\ DBIterator_key(iter) = key
            THEN DBIterator_next(iter) ELSE iter))

seek(self, key) ==
    LET iter == DBIterator_seek(new_iterator(self, IterOption_default), key)
    IN  Ok(DBIterator_kv(iter))

seek_cf(self, cf, key) ==
    LET iter == new_iterator_cf(self, cf, IterOption_default)
    IN  IF ~iter.ok THEN Err(iter.err)
        ELSE Ok(DBIterator_kv(DBIterator_seek(iter.val, key)))

\* a scan that leaves end_key out of the cursor's configuration
scan_iter_unbounded(self, cf, end_key, fill_cache) ==
    LET iter_opt == IterOption_new(None, fill_cache)
    IN  IF IsSome(cf) THEN new_iterator_cf(self, Unwrap(cf), iter_opt)
        ELSE Ok(new_iterator(self, iter_opt))

\* scan / scan_cf up to the call of scan_impl: the cursor scan_impl gets.
\* cf is None for scan and Some(name) for scan_cf.
scan_iter(self, cf, end_key, fill_cache) ==
    LET iter_opt == IterOption_new(Some(end_key), fill_cache)
    IN  IF IsSome(cf) THEN new_iterator_cf(self, Unwrap(cf), iter_opt)
        ELSE Ok(new_iterator(self, iter_opt))

----------------------------------------------------------------------------
(* State *)

SnapIds == 1..MaxSnaps

\* a map of the whole store: per column family, per key, Some(value) or None
EmptyStore == [c \in CfNames |-> [k \in StoreKeys |-> None]]

NoSnapshot == [st |-> "none", snap |-> 0, owners |-> 0]
NoIter == [cf |-> "", seq |-> 0, ub |-> None, pos |-> None, status |-> "ok"]
NoScan ==
    [st |-> "idle", self |-> DBHandle, cf |-> None, start |-> <<>>,
     end |-> <<>>, it |-> NoIter, out |-> <<>>, stopped |-> FALSE,
     res |-> Ok(None), base |-> EmptyStore[CfDefault], at |-> <<>>]
NoRet == [op |-> "", self |-> DBHandle, cf |-> "", key |-> <<>>, res |-> Ok(None)]

\* The store before the first step: what the tests' setup leaves behind.
\* Each key of StoreKeys, in ascending order, was written in both column
\* families: put with ValV1 in the default one and ValV2 in "cf" when the
\* key is in present, deleted (a delete of an absent key) otherwise.
RECURSIVE SetupLog(_, _)
SetupLog(keys, present) ==
    IF keys = {} THEN <<>>
    ELSE LET k == MinKey(keys)
         IN  <<Rec(CfDefault, k, IF k \in present THEN Some(ValV1) ELSE None),
               Rec("cf", k, IF k \in present THEN Some(ValV2) ELSE None)>>
             \o SetupLog(keys \ {k}, present)

SetupStore(present) ==
    [c \in CfNames |-> [k \in StoreKeys |->
        IF k \notin present THEN None
        ELSE IF c = CfDefault THEN Some(ValV1) ELSE Some(ValV2)]]

SetupLen == 2 * Cardinality(StoreKeys)

Setups == {{}, {KeyA1, KeyA2}, {KeyA1, KeyA3}}

Init ==
    /\ \E present \in Setups :
          /\ log = SetupLog(StoreKeys, present)
          /\ live = SetupStore(present)
    /\ markers = <<>>
    /\ snaps = [i \in SnapIds |-> NoSnapshot]
    /\ view = [i \in SnapIds |-> EmptyStore]
    /\ scan = NoScan
    /\ ret = NoRet
    /\ db = [handles |-> 1, open |-> TRUE, misused |-> FALSE]

\* a Snapshot some owner still holds
Alive(i) == snaps[i].st \in {"owned", "shared"}

\* what a read can be issued on: the live handle, while a handle is held,
\* and the Snapshots held
Readers ==
    (IF db.handles >= 1 THEN {DBHandle} ELSE {}) \cup {i \in SnapIds : Alive(i)}

\* scan borrows its data source until it returns
Borrowed(i) == scan.st = "loop" /\ scan.self = i

\* ret and a finished scan hold what the last call returned; the next step
\* of the program finds the result taken.  A scan still in its loop stays.
Taken ==
    /\ ret' = NoRet
    /\ scan' = IF scan.st = "loop" THEN scan ELSE NoScan

----------------------------------------------------------------------------
(* Writes on the live handle: rocksdb::Writable for DB and trait Mutable *)

\* the engine appends one version; val is Some(bytes), or None for a delete
EngineWrite(handle, key, val) ==
    /\ db.handles >= 1
    /\ Len(log) < SetupLen + MaxWrites
    /\ log' = Append(log, Rec(handle, key, val))
    /\ live' = [live EXCEPT ![handle][key] = val]
    /\ Taken
    /\ UNCHANGED <<markers, snaps, view, db>>

put(key, value) == EngineWrite(CfDefault, key, Some(value))
put_cf(handle, key, value) == EngineWrite(handle, key, Some(value))
delete(key) == EngineWrite(CfDefault, key, None)
delete_cf(handle, key) == EngineWrite(handle, key, None)

(* trait Mutable *)

put_msg(key, m) == put(key, write_to_bytes(m))

put_msg_cf(cf, key, m) == put_cf(cf, key, write_to_bytes(m))

\* a put_u64 that writes the bytes least significant first
put_u64_le(key, n) ==
    put(key, <<n[4] % 256, n[4] \div 256, n[3] % 256, n[3] \div 256,
               n[2] % 256, n[2] \div 256, n[1] % 256, n[1] \div 256>>)

put_u64(key, n) == put(key, BigEndian_write_u64(n))

put_i64(key, n) == put_u64(key, i64_as_u64(n))

del(key) == delete(key)

----------------------------------------------------------------------------
(* Snapshot and SyncSnapshot *)

\* DB::unsafe_snap: a new marker at the current sequence number
unsafe_snap == Append(markers, [seq |-> Len(log), rel |-> 0])

\* DB::release_snap: the marker is destroyed
release_snap(snap) == [markers EXCEPT ![snap] = [seq |-> 0, rel |-> @.rel + 1]]

\* the next Snapshot object
Fresh(i) == snaps[i].st = "none" /\ \A j \in SnapIds : j < i => snaps[j].st # "none"

\* Snapshot::new
Snapshot_new(i) ==
    /\ Fresh(i)
    /\ db.handles >= 1
    /\ markers' = unsafe_snap
    /\ snaps' = [snaps EXCEPT ![i] = [st |-> "owned", snap |-> Len(markers'), owners |-> 1]]
    /\ view' = [view EXCEPT ![i] = live]
    /\ Taken
    /\ UNCHANGED <<log, live, db>>

\* SyncSnapshot::new: Arc::new(Snapshot::new(db))
SyncSnapshot_new(i) ==
    /\ Fresh(i)
    /\ db.handles >= 1
    /\ markers' = unsafe_snap
    /\ snaps' = [snaps EXCEPT ![i] = [st |-> "shared", snap |-> Len(markers'), owners |-> 1]]
    /\ view' = [view EXCEPT ![i] = live]
    /\ Taken
    /\ UNCHANGED <<log, live, db>>

\* Snapshot::into_sync: the Snapshot moves into a new Arc
into_sync(i) ==
    /\ snaps[i].st = "owned"
    /\ ~Borrowed(i)
    /\ snaps' = [snaps EXCEPT ![i].st = "shared"]
    /\ Taken
    /\ UNCHANGED <<log, markers, live, view, db>>

\* a clone that takes a marker of its own for the shared Snapshot
SyncSnapshot_clone_resnap(i) ==
    /\ snaps[i].st = "shared"
    /\ snaps[i].owners < MaxOwners
    /\ markers' = unsafe_snap
    /\ snaps' = [snaps EXCEPT ![i].owners = @ + 1, ![i].snap = Len(markers')]
    /\ Taken
    /\ UNCHANGED <<log, live, view, db>>

\* SyncSnapshot::clone: one more owner of the same Arc
SyncSnapshot_clone(i) ==
    /\ snaps[i].st = "shared"
    /\ snaps[i].owners < MaxOwners
    /\ snaps' = [snaps EXCEPT ![i].owners = @ + 1]
    /\ Taken
    /\ UNCHANGED <<log, markers, live, view, db>>

\* the strong count of the Arc<DB>: the handles held outside, and one per
\* Snapshot (its field db)
StrongCount == db.handles + Cardinality({i \in SnapIds : Alive(i)})

\* DB::release_snap as the store sees it: on a store already destroyed it
\* is a use after free
ReleasedOn(d) == [d EXCEPT !.misused = @ \/ ~d.open]

\* one Arc<DB> goes away, left others remaining: the last one destroys
\* the store
Arc_drop(d, left) == IF left = 0 THEN [d EXCEPT !.open = FALSE] ELSE d

\* a drop that releases the newest marker of the store
Snapshot_drop_newest(i) ==
    /\ markers' = release_snap(Len(markers))
    /\ snaps' = [snaps EXCEPT ![i] = [@ EXCEPT !.st = "dropped", !.owners = 0]]
    /\ view' = [view EXCEPT ![i] = EmptyStore]
    /\ db' = Arc_drop(ReleasedOn(db), StrongCount - 1)

\* a drop that gives up the Snapshot's Arc<DB> and then releases the marker
Snapshot_drop_late(i) ==
    /\ markers' = release_snap(snaps[i].snap)
    /\ snaps' = [snaps EXCEPT ![i] = [@ EXCEPT !.st = "dropped", !.owners = 0]]
    /\ view' = [view EXCEPT ![i] = EmptyStore]
    /\ db' = ReleasedOn(Arc_drop(db, StrongCount - 1))

\* impl Drop for Snapshot: drop() releases the marker, then the fields are
\* dropped, db among them
Snapshot_drop(i) ==
    /\ markers' = release_snap(snaps[i].snap)
    /\ snaps' = [snaps EXCEPT ![i] = [@ EXCEPT !.st = "dropped", !.owners = 0]]
    /\ view' = [view EXCEPT ![i] = EmptyStore]
    /\ db' = Arc_drop(ReleasedOn(db), StrongCount - 1)

\* Arc<DB>::clone of a handle held outside the Snapshots
clone_engine ==
    /\ db.handles \in 1..(MaxHandles - 1)
    /\ db' = [db EXCEPT !.handles = @ + 1]
    /\ Taken
    /\ UNCHANGED <<log, markers, snaps, live, view>>

\* Snapshot::get_db: a clone of the Snapshot's own Arc<DB>
get_db(i) ==
    /\ Alive(i)
    /\ db.handles < MaxHandles
    /\ db' = [db EXCEPT !.handles = @ + 1]
    /\ Taken
    /\ UNCHANGED <<log, markers, snaps, live, view>>

\* a handle held outside the Snapshots goes out of scope
drop_engine ==
    /\ db.handles >= 1
    /\ ~(Borrowed(DBHandle) /\ db.handles = 1)
    /\ db' = Arc_drop([db EXCEPT !.handles = @ - 1], StrongCount - 1)
    /\ Taken
    /\ UNCHANGED <<log, markers, snaps, live, view>>

\* an owned Snapshot goes out of scope
drop_Snapshot(i) ==
    /\ snaps[i].st = "owned"
    /\ ~Borrowed(i)
    /\ Snapshot_drop(i)
    /\ Taken
    /\ UNCHANGED <<log, live>>

\* a clone that is a second Snapshot around the same marker: each owner
\* releases it
drop_SyncSnapshot_each(i) ==
    /\ snaps[i].st = "shared"
    /\ IF snaps[i].owners > 1
       THEN /\ snaps' = [snaps EXCEPT ![i].owners = @ - 1]
            /\ markers' = release_snap(snaps[i].snap)
            /\ UNCHANGED <<view, db>>
       ELSE /\ ~Borrowed(i)
            /\ Snapshot_drop(i)
    /\ Taken
    /\ UNCHANGED <<log, live>>

\* a SyncSnapshot goes out of scope: the Arc drops the Snapshot with its
\* last owner
drop_SyncSnapshot(i) ==
    /\ snaps[i].st = "shared"
    /\ IF snaps[i].owners > 1
       THEN /\ snaps' = [snaps EXCEPT ![i].owners = @ - 1]
            /\ UNCHANGED <<markers, view, db>>
       ELSE /\ ~Borrowed(i)
            /\ Snapshot_drop(i)
    /\ Taken
    /\ UNCHANGED <<log, live>>

----------------------------------------------------------------------------
(* Reads.  A read changes nothing but ret, which records the call and what
   it returned. *)

Returned(op, self, cf, key, res) ==
    /\ ret' = [op |-> op, self |-> self, cf |-> cf, key |-> key, res |-> res]
    /\ scan' = IF scan.st = "loop" THEN scan ELSE NoScan
    /\ UNCHANGED <<log, markers, snaps, live, view, db>>

Call_get_value(self, key) ==
    Returned("get_value", self, "", key, get_value(self, key))

Call_get_msg(self, key) ==
    Returned("get_msg", self, "", key, get_msg(self, key))

Call_new_iterator(self) ==
    Returned("new_iterator", self, "", <<>>,
             Ok(new_iterator(self, IterOption_default)))

Call_get_value_cf(self, cf, key) ==
    Returned("get_value_cf", self, cf, key, get_value_cf(self, cf, key))

Call_get_msg_cf(self, cf, key) ==
    Returned("get_msg_cf", self, cf, key, get_msg_cf(self, cf, key))

Call_get_u64(self, key) ==
    Returned("get_u64", self, "", key, get_u64(self, key))

Call_get_i64(self, key) ==
    Returned("get_i64", self, "", key, get_i64(self, key))

Call_cf_handle(self, cf) ==
    /\ self # DBHandle
    /\ Returned("cf_handle", self, cf, <<>>, Snapshot_cf_handle(self, cf))

Call_new_iterator_cf(self, cf) ==
    Returned("new_iterator_cf", self, cf, <<>>,
             new_iterator_cf(self, cf, IterOption_default))

Call_seek(self, key) ==
    Returned("seek", self, "", key, seek(self, key))

Call_seek_cf(self, cf, key) ==
    Returned("seek_cf", self, cf, key, seek_cf(self, cf, key))

----------------------------------------------------------------------------
(* scan, scan_cf and scan_impl.  The callback f is the environment's: it
   records the pair it is given in scan.out and returns Ok(true), Ok(false)
   or an error. *)

CbTrue == "Ok(true)"
CbFalse == "Ok(false)"
CbErr == "Err"
Answers == {CbTrue, CbFalse, CbErr}

\* history: the pairs of one column family of the data source, as a map
SourceMap(self, cf) ==
    LET store == IF self = DBHandle THEN live ELSE view[self]
    IN  IF IsSome(cf)
        THEN IF Unwrap(cf) \in CfNames THEN store[Unwrap(cf)]
             ELSE EmptyStore[CfDefault]
        ELSE store[CfDefault]

\* a scan whose cursor starts at the first key of the data source
scan_begin_first(self, cf, start_key, end_key, fill_cache) ==
    /\ scan.st # "loop"
    /\ LET it == scan_iter(self, cf, end_key, fill_cache)
           call == [NoScan EXCEPT !.self = self, !.cf = cf,
                                  !.start = start_key, !.end = end_key,
                                  !.base = SourceMap(self, cf)]
       IN  scan' = IF ~it.ok
                   THEN [call EXCEPT !.st = "done", !.res = Err(it.err)]
                   ELSE [call EXCEPT !.st = "loop",
                                     !.it = DBIterator_seek(it.val, KeyEmpty)]
    /\ ret' = NoRet
    /\ UNCHANGED <<log, markers, snaps, live, view, db>>

\* scan / scan_cf: build the cursor, then scan_impl's it.seek(start_key)
scan_begin(self, cf, start_key, end_key, fill_cache) ==
    /\ scan.st # "loop"
    /\ LET it == scan_iter(self, cf, end_key, fill_cache)
           call == [NoScan EXCEPT !.self = self, !.cf = cf,
                                  !.start = start_key, !.end = end_key,
                                  !.base = SourceMap(self, cf)]
       IN  scan' = IF ~it.ok
                   THEN [call EXCEPT !.st = "done", !.res = Err(it.err)]
                   ELSE [call EXCEPT !.st = "loop",
                                     !.it = DBIterator_seek(it.val, start_key)]
    /\ ret' = NoRet
    /\ UNCHANGED <<log, markers, snaps, live, view, db>>

\* a loop that goes on to the next pair whatever f answers
scan_turn_deaf(r, fail) ==
    /\ scan.st = "loop"
    /\ DBIterator_valid(scan.it)
    /\ LET pair == <<DBIterator_key(scan.it), DBIterator_value(scan.it)>>
           called == [scan EXCEPT !.out = Append(@, pair),
                                  !.at = Append(@, Len(log)),
                                  !.stopped = @ \/ r = CbFalse]
           moved == IF fail THEN DBIterator_next_failed(scan.it)
                    ELSE DBIterator_next(scan.it)
       IN  scan' = IF r = CbErr
                   THEN [called EXCEPT !.st = "done", !.res = Err("callback")]
                   ELSE IF ~DBIterator_valid(moved)
                   THEN [called EXCEPT !.st = "done", !.it = moved,
                                       !.res = Ok(None)]
                   ELSE [called EXCEPT !.it = moved]
    /\ ret' = NoRet
    /\ UNCHANGED <<log, markers, snaps, live, view, db>>

\* a loop that advances the cursor before it looks at f's answer
scan_turn_eager(r, fail) ==
    /\ scan.st = "loop"
    /\ DBIterator_valid(scan.it)
    /\ fail => r = CbTrue
    /\ LET pair == <<DBIterator_key(scan.it), DBIterator_value(scan.it)>>
           moved == IF fail THEN DBIterator_next_failed(scan.it)
                    ELSE DBIterator_next(scan.it)
           called == [scan EXCEPT !.out = Append(@, pair),
                                  !.at = Append(@, Len(log)),
                                  !.it = moved]
       IN  scan' = IF r = CbErr
                   THEN [called EXCEPT !.st = "done", !.res = Err("callback")]
                   ELSE IF r = CbFalse
                   THEN [called EXCEPT !.st = "done", !.stopped = TRUE,
                                       !.res = Ok(None)]
                   ELSE IF ~DBIterator_valid(moved)
                   THEN [called EXCEPT !.st = "done", !.res = Ok(None)]
                   ELSE called
    /\ ret' = NoRet
    /\ UNCHANGED <<log, markers, snaps, live, view, db>>

\* one turn of scan_impl's loop: `let r = try!(f(it.key(), it.value()))`
\* returns f's error, otherwise `if !r || !it.next() { break; }`;
\* fail: the engine fails to advance (it.next() is called only after true)
scan_turn(r, fail) ==
    /\ scan.st = "loop"
    /\ DBIterator_valid(scan.it)
    /\ fail => r = CbTrue
    /\ LET pair == <<DBIterator_key(scan.it), DBIterator_value(scan.it)>>
           called == [scan EXCEPT !.out = Append(@, pair),
                                  !.at = Append(@, Len(log))]
           moved == IF fail THEN DBIterator_next_failed(scan.it)
                    ELSE DBIterator_next(scan.it)
       IN  scan' = IF r = CbErr
                   THEN [called EXCEPT !.st = "done", !.res = Err("callback")]
                   ELSE IF r = CbFalse
                   THEN [called EXCEPT !.st = "done", !.stopped = TRUE,
                                       !.res = Ok(None)]
                   ELSE IF ~DBIterator_valid(moved)
                   THEN [called EXCEPT !.st = "done", !.it = moved,
                                       !.res = Ok(None)]
                   ELSE [called EXCEPT !.it = moved]
    /\ ret' = NoRet
    /\ UNCHANGED <<log, markers, snaps, live, view, db>>

\* scan_impl run to its end with the callback of the tests, which keeps
\* every pair and returns Ok(true): the pairs it has kept
RECURSIVE scan_impl_kept(_)
scan_impl_kept(it) ==
    IF ~DBIterator_valid(it) THEN <<>>
    ELSE <<<<DBIterator_key(it), DBIterator_value(it)>>>>
         \o scan_impl_kept(DBIterator_next(it))

\* scan / scan_cf over [start_key, end_key) with that callback
scan_kept(self, cf, start_key, end_key) ==
    LET it == scan_iter(self, cf, end_key, FALSE)
    IN  IF ~it.ok THEN Err(it.err)
        ELSE Ok(scan_impl_kept(DBIterator_seek(it.val, start_key)))

\* scan_impl's `while it.valid()` fails on entry: Ok(())
scan_exit ==
    /\ scan.st = "loop"
    /\ ~DBIterator_valid(scan.it)
    /\ scan' = [scan EXCEPT !.st = "done", !.res = Ok(None)]
    /\ ret' = NoRet
    /\ UNCHANGED <<log, markers, snaps, live, view, db>>

----------------------------------------------------------------------------
(* Spec: writes, Snapshots and point lookups *)

PointKeys == {KeyA1}
ReadKeys == {KeyA1, KeyA2}

Write ==
    \/ \E k \in PointKeys, v \in Values : put(k, v)
    \/ \E k \in PointKeys, v \in Values : put_cf("cf", k, v)
    \/ \E k \in PointKeys : del(k)
    \/ \E k \in PointKeys : delete_cf("cf", k)

Next ==
    \/ Write
    \/ \E i \in SnapIds : Snapshot_new(i)
    \/ \E i \in SnapIds : drop_Snapshot(i)
    \/ \E self \in Readers, k \in ReadKeys : Call_get_value(self, k)
    \/ \E self \in Readers, cf \in CfArgs, k \in ReadKeys :
          Call_get_value_cf(self, cf, k)

Spec == Init /\ [][Next]_vars

----------------------------------------------------------------------------
(* Point lookups *)

\* C1: a get on a Snapshot, in the default space or in a column family,
\* returns for every key exactly what the store held for it when the
\* Snapshot was created (None when the key did not exist then), whatever
\* was written or deleted on the live handle since, and this for every
\* Snapshot that is held.
C1_SnapshotGetIsolated ==
    \A i \in SnapIds : Alive(i) =>
        \A k \in StoreKeys :
            /\ get_value(i, k) = Ok(view[i][CfDefault][k])
            /\ \A c \in CfNames : get_value_cf(i, c, k) = Ok(view[i][c][k])

\* Two Snapshots taken at different instants are held, and a get on the
\* older one has just returned something other than the live value.
C1_Witness ==
    /\ ret.op = "get_value"
    /\ ret.self \in SnapIds
    /\ ret.res.ok
    /\ ret.res.val # live[CfDefault][ret.key]
    /\ \E j \in SnapIds : Alive(j) /\ j # ret.self /\ view[j] # view[ret.self]

\* C4: a get on the live handle returns for every key the value of the
\* last write to it (None after a delete or when it was never written),
\* whatever Snapshots are held or were dropped.
C4_LiveGetNeverStale ==
    \A k \in StoreKeys :
        /\ get_value(DBHandle, k) = Ok(live[CfDefault][k])
        /\ \A c \in CfNames : get_value_cf(DBHandle, c, k) = Ok(live[c][k])

\* A get on the live handle has just returned the value written after a
\* Snapshot that is still held was taken, a second Snapshot having been
\* dropped.
C4_Witness ==
    /\ ret.op = "get_value"
    /\ ret.self = DBHandle
    /\ Len(log) > SetupLen
    /\ ret.res = Ok(log[Len(log)].val)
    /\ log[Len(log)].key = ret.key /\ log[Len(log)].cf = CfDefault
    /\ \E i \in SnapIds : Alive(i) /\ view[i][CfDefault][ret.key] # ret.res.val
    /\ \E j \in SnapIds : snaps[j].st = "dropped"

----------------------------------------------------------------------------
(* SpecLife: the owners of a Snapshot *)

NextLife ==
    \/ \E k \in PointKeys : put(k, ValV2)
    \/ \E i \in SnapIds : Snapshot_new(i)
    \/ \E i \in SnapIds : SyncSnapshot_new(i)
    \/ \E i \in SnapIds : into_sync(i)
    \/ \E i \in SnapIds : SyncSnapshot_clone(i)
    \/ \E i \in SnapIds : drop_Snapshot(i)
    \/ \E i \in SnapIds : drop_SyncSnapshot(i)
    \/ \E self \in Readers, k \in PointKeys : Call_get_value(self, k)

SpecLife == Init /\ [][NextLife]_vars

\* the Snapshot objects made so far
Created == {i \in SnapIds : snaps[i].st # "none"}

\* C2: every marker acquired by Snapshot::new or SyncSnapshot::new belongs
\* to one Snapshot object; it has not been released while that object has
\* an owner (through any clone, into_sync or drop of other owners), and it
\* has been released exactly once as soon as the last owner is dropped. No
\* marker is acquired other than by creating a Snapshot.
C2_ReleasedExactlyOnce ==
    /\ Len(markers) = Cardinality(Created)
    /\ \A i \in Created :
          /\ snaps[i].snap \in 1..Len(markers)
          /\ \A j \in Created : j # i => snaps[j].snap # snaps[i].snap
          /\ Alive(i) <=> snaps[i].owners >= 1
          /\ markers[snaps[i].snap].rel = IF Alive(i) THEN 0 ELSE 1

\* One Snapshot lost its last owner and its marker is released; another,
\* shared by two owners, still holds its own.
C2_Witness ==
    \E i, j \in SnapIds :
        /\ snaps[i].st = "dropped" /\ markers[snaps[i].snap].rel = 1
        /\ snaps[j].st = "shared" /\ snaps[j].owners = 2
        /\ markers[snaps[j].snap].rel = 0

----------------------------------------------------------------------------
(* SpecScan: seek and scan, on the live handle and on Snapshots, with
   writes on the live handle in between *)

ScanStarts == {KeyEmpty, KeyA2}
ScanEnds == {KeyA3, KeyMax}
ScanCfs == {None, Some("cf")}
ScanSnaps == {1}
SeekKeys == {KeyA1, KeyA3}

WriteScan ==
    \/ put(KeyA3, ValV2)
    \/ del(KeyA1)
    \/ put_cf("cf", KeyA2, ValV1)

NextScan ==
    \/ WriteScan
    \/ \E i \in ScanSnaps : Snapshot_new(i)
    \/ \E i \in ScanSnaps : drop_Snapshot(i)
    \/ \E self \in Readers, cf \in ScanCfs, s \in ScanStarts, e \in ScanEnds :
          scan_begin(self, cf, s, e, FALSE)
    \/ \E r \in Answers, fail \in BOOLEAN : scan_turn(r, fail)
    \/ scan_exit
    \/ \E self \in Readers, k \in SeekKeys : Call_seek(self, k)
    \/ \E self \in Readers, k \in SeekKeys : Call_seek_cf(self, "cf", k)

SpecScan == Init /\ [][NextScan]_vars

----------------------------------------------------------------------------
(* SpecSeek: seek on the live handle and on Snapshots *)

WriteSeek ==
    \/ \E k \in StoreKeys : put(k, ValV2)
    \/ \E k \in StoreKeys : del(k)
    \/ \E k \in StoreKeys : put_cf("cf", k, ValV1)
    \/ \E k \in StoreKeys : delete_cf("cf", k)

NextSeek ==
    \/ WriteSeek
    \/ \E i \in ScanSnaps : Snapshot_new(i)
    \/ \E i \in ScanSnaps : drop_Snapshot(i)
    \/ \E self \in Readers, k \in ArgKeys : Call_seek(self, k)
    \/ \E self \in Readers, k \in ArgKeys : Call_seek_cf(self, "cf", k)

SpecSeek == Init /\ [][NextSeek]_vars

----------------------------------------------------------------------------
(* What a scan and a seek are to deliver, stated on the history maps *)

\* the keys of the store in ascending order
KeyOrder == <<KeyA1, KeyA2, KeyA3>>

InRange(k, start, end) == BytesLeq(start, k) /\ BytesLess(k, end)

\* the pairs of map m with start <= key < end, in ascending key order
RangePairs(m, start, end) ==
    LET Hit(k) == IsSome(m[k]) /\ InRange(k, start, end)
        hits == SelectSeq(KeyOrder, Hit)
    IN  [n \in 1..Len(hits) |-> <<hits[n], Unwrap(m[hits[n]])>>]

IsPrefix(a, b) == Len(a) <= Len(b) /\ a = SubSeq(b, 1, Len(a))

\* the pair of map m with the smallest key >= key, None when there is none
FirstFrom(m, key) ==
    LET c == {k \in StoreKeys : IsSome(m[k]) /\ BytesLeq(key, k)}
    IN  IF c = {} THEN None
        ELSE LET k == CHOOSE x \in c : \A y \in c : x = y \/ BytesLess(x, y)
             IN  Some(<<k, Unwrap(m[k])>>)

\* what the scan in progress is to deliver when f never answers false
ScanDue == RangePairs(scan.base, scan.start, scan.end)

\* the scan's cursor was built (the column family resolved) and its
\* callback has returned no error
ScanRuns == scan.st \in {"loop", "done"} /\ scan.res.ok

----------------------------------------------------------------------------
(* Iteration *)

\* C3: seek and scan, and their column family variants, on a Snapshot see
\* exactly the pairs the store held when the Snapshot was created: every
\* seek returns the first pair at or after its key among those, and a scan
\* delivers them in order, whatever is inserted, overwritten or deleted on
\* the live handle before the scan or between two calls of its callback.
C3_SnapshotIterationIsolated ==
    /\ \A i \in SnapIds : Alive(i) =>
          \A k \in ArgKeys :
              /\ seek(i, k) = Ok(FirstFrom(view[i][CfDefault], k))
              /\ \A c \in CfNames : seek_cf(i, c, k) = Ok(FirstFrom(view[i][c], k))
    /\ (ScanRuns /\ scan.self # DBHandle) =>
          /\ scan.base = view[scan.self][IF IsSome(scan.cf) THEN Unwrap(scan.cf) ELSE CfDefault]
          /\ IsPrefix(scan.out, ScanDue)
          /\ (scan.st = "done" /\ ~scan.stopped /\ scan.it.status = "ok")
                => scan.out = ScanDue

\* A scan on a Snapshot delivered two pairs, a write on the live handle
\* came between the two calls of the callback, and it changed the very
\* column family the scan reads.
C3_Witness ==
    /\ scan.st = "done" /\ scan.self # DBHandle /\ ~scan.stopped
    /\ Len(scan.out) >= 2
    /\ scan.at[1] < scan.at[2]
    /\ live[scan.it.cf] # view[scan.self][scan.it.cf]

\* C5: a scan whose callback always answers true, and whose cursor the
\* engine advances without failure, has called it, when it returns, once
\* for each pair of the data source with start <= key < end, in strictly
\* ascending key order, and for no other pair; while it runs, the pairs
\* delivered are the first of those.  An empty start takes the scan from
\* the first key.  The same on a column family with scan_cf.
C5_ScanDeliversRange ==
    ScanRuns =>
        /\ IsPrefix(scan.out, ScanDue)
        /\ \A n \in 1..(Len(scan.out) - 1) :
              BytesLess(scan.out[n][1], scan.out[n + 1][1])
        /\ \A n \in 1..Len(scan.out) :
              InRange(scan.out[n][1], scan.start, scan.end)
        /\ (scan.st = "done" /\ ~scan.stopped /\ scan.it.status = "ok")
              => /\ scan.out = ScanDue
                 /\ scan.res = Ok(None)

\* A scan from the empty key has returned after delivering every pair of a
\* column family that holds three, and one of a range that excludes some.
C5_Witness ==
    /\ scan.st = "done" /\ ~scan.stopped /\ scan.it.status = "ok"
    /\ scan.start = KeyEmpty
    /\ Len(scan.out) = 2
    /\ Cardinality({k \in StoreKeys : IsSome(scan.base[k])}) = 3
    /\ IsSome(scan.cf)

C7_SeekFirstAtOrAfter ==
    \A self \in Readers : \A k \in ArgKeys :
        /\ seek(self, k) = Ok(FirstFrom(SourceMap(self, None), k))
        /\ \A c \in CfNames :
              LET r == seek_cf(self, c, k)
                  m == SourceMap(self, Some(c))
              IN  /\ r = Ok(FirstFrom(m, k))
                  /\ ~IsSome(r.val) <=>
                        ~\E j \in StoreKeys : IsSome(m[j]) /\ BytesLeq(k, j)
                  /\ IsSome(r.val) =>
                        /\ BytesLeq(k, Unwrap(r.val)[1])
                        /\ m[Unwrap(r.val)[1]] = Some(Unwrap(r.val)[2])

\* seek(a3) has just returned None on a store that holds a1, and seek on
\* the live handle finds a key a held Snapshot does not have.
C7_Witness ==
    /\ ret.op = "seek" /\ ret.key = KeyA3 /\ ret.res = Ok(None)
    /\ IsSome(SourceMap(ret.self, None)[KeyA1])
    /\ \E i \in SnapIds : Alive(i) /\ seek(i, KeyA3) # seek(DBHandle, KeyA3)

----------------------------------------------------------------------------
(* SpecCf: the default space and the column families, with names that
   resolve and one that does not *)

Region10 == [id |-> 10]
ScanCfArgs == {Some("cf"), Some("foo")}

WriteCf ==
    \/ \E k \in PointKeys : put_msg(k, Region10)
    \/ \E k \in PointKeys : put_msg_cf("cf", k, Region10)
    \/ \E k \in PointKeys : del(k)
    \/ \E k \in PointKeys : delete_cf("cf", k)

NextCf ==
    \/ WriteCf
    \/ \E i \in ScanSnaps : Snapshot_new(i)
    \/ \E i \in ScanSnaps : drop_Snapshot(i)
    \/ \E self \in Readers, k \in PointKeys : Call_get_value(self, k)
    \/ \E self \in Readers, cf \in CfArgs, k \in PointKeys :
          Call_get_value_cf(self, cf, k)
    \/ \E self \in Readers, cf \in CfArgs, k \in PointKeys :
          Call_get_msg_cf(self, cf, k)
    \/ \E self \in Readers, cf \in CfArgs : Call_cf_handle(self, cf)
    \/ \E self \in Readers, cf \in CfArgs : Call_new_iterator_cf(self, cf)
    \/ \E self \in Readers, cf \in CfArgs, k \in PointKeys :
          Call_seek_cf(self, cf, k)
    \/ \E self \in Readers, cf \in ScanCfArgs :
          scan_begin(self, cf, KeyA3, KeyMax, FALSE)
    \/ \E r \in Answers, fail \in BOOLEAN : scan_turn(r, fail)
    \/ scan_exit

SpecCf == Init /\ [][NextCf]_vars

\* everything the default space returns on a data source: lookups, seeks
\* and the scan of the whole space
DefaultReads(self) ==
    <<[k \in ArgKeys |-> get_value(self, k)],
      [k \in ArgKeys |-> seek(self, k)],
      scan_kept(self, None, KeyEmpty, KeyMax)>>

\* the same for a column family
CfReads(self, cf) ==
    <<[k \in ArgKeys |-> get_value_cf(self, cf, k)],
      [k \in ArgKeys |-> seek_cf(self, cf, k)],
      scan_kept(self, Some(cf), KeyEmpty, KeyMax)>>

\* the write of the step just taken
LastWrite == log[Len(log)]

\* what a space that holds map m returns: its lookups, its seeks and the
\* scan of the whole space
ReadsOf(m) ==
    <<[k \in ArgKeys |-> Ok(IF k \in StoreKeys THEN m[k] ELSE None)],
      [k \in ArgKeys |-> Ok(FirstFrom(m, k))],
      Ok(RangePairs(m, KeyEmpty, KeyMax))>>

\* C8: the default space and a named column family are independent
\* keyspaces.  Each has its own map from keys to values, and a write (put
\* or delete) changes the map of the space it is made in, for its key, and
\* no other; on the live handle and on every Snapshot held, every lookup,
\* seek and scan of the default space returns what the default space's map
\* holds and every lookup, seek and scan of the column family what the
\* column family's map holds, so that a write in one space changes nothing
\* a read or scan of the other returns.
C8_ColumnFamiliesIndependent ==
    /\ [](\A self \in Readers :
            LET store == IF self = DBHandle THEN live ELSE view[self]
            IN  /\ DefaultReads(self) = ReadsOf(store[CfDefault])
                /\ \A c \in CfNames \ {CfDefault} :
                      CfReads(self, c) = ReadsOf(store[c]))
    /\ [][Len(log') = Len(log) + 1 =>
            /\ live'[LastWrite'.cf][LastWrite'.key] = LastWrite'.val
            /\ \A c \in CfNames : \A k \in StoreKeys :
                  (c # LastWrite'.cf \/ k # LastWrite'.key) =>
                      live'[c][k] = live[c][k]
            /\ view' = view]_vars

\* Value B was written to a key in the column family while the default
\* space held another value A for the same key, and a get of the key in
\* the default space has just returned A.
C8_Witness ==
    /\ Len(log) > SetupLen
    /\ LastWrite.cf = "cf" /\ IsSome(LastWrite.val)
    /\ ret.op = "get_value" /\ ret.self = DBHandle /\ ret.key = LastWrite.key
    /\ ret.res.ok /\ IsSome(ret.res.val)
    /\ ret.res.val # LastWrite.val
    /\ get_value_cf(DBHandle, "cf", ret.key) = Ok(LastWrite.val)

\* the accessors that take a column family name
CfAccessors ==
    {"get_value_cf", "get_msg_cf", "cf_handle", "new_iterator_cf", "seek_cf"}

\* what each of them returns for name cf on data source self, reduced to
\* success or the error
CfOutcomes(self, cf) ==
    LET Outcome(r) == IF r.ok THEN "ok" ELSE r.err
    IN  {Outcome(get_value_cf(self, cf, k)) : k \in ArgKeys}
        \cup {Outcome(seek_cf(self, cf, k)) : k \in ArgKeys}
        \cup {Outcome(new_iterator_cf(self, cf, IterOption_default)),
              Outcome(scan_kept(self, Some(cf), KeyEmpty, KeyMax))}
        \cup (IF self = DBHandle THEN {}
              ELSE {Outcome(Snapshot_cf_handle(self, cf))})

\* C9: with a column family name that does not resolve, get_value_cf,
\* get_msg_cf, new_iterator_cf, seek_cf, scan_cf and Snapshot::cf_handle
\* return the resolver's error, on the live handle and on every Snapshot
\* held, and with a name that resolves they do not; the failed call returns
\* no value, a failed scan_cf has never called its callback, and the step
\* of the failed call leaves the store, its markers and the Snapshots as
\* they were.
C9_UnknownCfIsError ==
    /\ [](/\ \A self \in Readers : \A cf \in CfArgs \cup CfNames :
                /\ CfOutcomes(self, cf) =
                      IF cf \in CfNames THEN {"ok"} ELSE {"cf not found"}
                /\ \A k \in ArgKeys :
                      LET m == get_msg_cf(self, cf, k)
                      IN  IF cf \in CfNames
                          THEN m.ok \/ m.err = "protobuf"
                          ELSE ~m.ok /\ m.err = "cf not found"
          /\ (ret.op \in CfAccessors /\ ret.cf \notin CfNames) =>
                /\ ~ret.res.ok
                /\ ret.res.val = None
          /\ (scan.st # "idle" /\ IsSome(scan.cf)) =>
                (Unwrap(scan.cf) \in CfNames
                 \/ /\ scan.st = "done"
                    /\ ~scan.res.ok /\ scan.res.val = None
                    /\ scan.out = <<>> /\ scan.at = <<>>))
    /\ [][(\/ ret'.op \in CfAccessors /\ ret'.cf \notin CfNames
           \/ /\ scan.st # "loop" /\ scan'.st = "done"
              /\ IsSome(scan'.cf) /\ ~scan'.res.ok)
          => UNCHANGED <<log, markers, snaps, live, view>>]_vars

\* seek_cf with a name that does not resolve has just failed on a
\* Snapshot whose default space and column family both hold the key, after
\* a write on the live handle.
C9_Witness ==
    /\ ret.op = "seek_cf" /\ ret.cf = "foo"
    /\ ret.self \in SnapIds
    /\ ~ret.res.ok
    /\ \A c \in CfNames : IsSome(view[ret.self][c][ret.key])
    /\ Len(log) > SetupLen

----------------------------------------------------------------------------
(* SpecCodec: fixed-width integers stored under a key of the default space *)

\* raw values of every length up to MaxValLen
RawValues == {[j \in 1..n |-> j] : n \in 0..MaxValLen}

U64Zero == <<0, 0, 0, 0>>
U64One == <<0, 0, 0, 1>>
U64High == <<32768, 0, 258, 772>>
U64Carry == <<0, 1, 0, 0>>
U64Top == <<32768, 0, 0, 0>>
U64Max == <<Limb - 1, Limb - 1, Limb - 1, Limb - 1>>
I64MaxMag == <<32767, Limb - 1, Limb - 1, Limb - 1>>
U64s == {U64Zero, U64One, U64High, U64Carry, U64Top, U64Max}
I64s ==
    {[neg |-> FALSE, mag |-> U64Zero], [neg |-> FALSE, mag |-> U64One],
     [neg |-> TRUE, mag |-> U64One], [neg |-> TRUE, mag |-> U64Carry],
     [neg |-> FALSE, mag |-> I64MaxMag], [neg |-> TRUE, mag |-> U64Top]}

WriteCodec ==
    \/ \E k \in PointKeys, v \in RawValues : put(k, v)
    \/ \E k \in PointKeys, n \in U64s : put_u64(k, n)
    \/ \E k \in PointKeys, n \in I64s : put_i64(k, n)
    \/ \E k \in PointKeys : del(k)

NextCodec ==
    \/ WriteCodec
    \/ \E i \in ScanSnaps : Snapshot_new(i)
    \/ \E i \in ScanSnaps : drop_Snapshot(i)
    \/ \E self \in Readers, k \in ReadKeys : Call_get_u64(self, k)
    \/ \E self \in Readers, k \in ReadKeys : Call_get_i64(self, k)

SpecCodec == Init /\ [][NextCodec]_vars

\* byte j of the 8 bytes of n, counted from the most significant
ByteOf(n, j) ==
    LET limb == n[(j + 1) \div 2]
    IN  IF j % 2 = 1 THEN limb \div 256 ELSE limb % 256

\* C10: on the live handle and on every Snapshot held, get_u64 returns
\* Ok(None) exactly when the key is not in the default space, an error
\* exactly when it is there with a raw value whose length is not 8 (0,
\* shorter or longer), and otherwise the integer whose 8 bytes, most
\* significant first, are the raw value; get_i64 succeeds, fails and
\* returns None exactly when get_u64 does.
C10_GetU64Conditions ==
    \A self \in Readers : \A k \in StoreKeys :
        LET raw == SourceMap(self, None)[k]
            u == get_u64(self, k)
            i == get_i64(self, k)
        IN  /\ (u.ok /\ ~IsSome(u.val)) <=> ~IsSome(raw)
            /\ ~u.ok <=> (IsSome(raw) /\ Len(Unwrap(raw)) # 8)
            /\ (u.ok /\ IsSome(u.val)) =>
                  /\ IsSome(raw)
                  /\ Len(Unwrap(raw)) = 8
                  /\ \A j \in 1..8 : ByteOf(Unwrap(u.val), j) = Unwrap(raw)[j]
            /\ i.ok <=> u.ok
            /\ ~i.ok => i.err = u.err
            /\ i.ok => (IsSome(i.val) <=> IsSome(u.val))

\* get_u64 has just failed on the live handle for a value of more than 8
\* bytes, while it fails on a held Snapshot for the shorter value that one
\* still sees for the key, and get_u64 of another key returns None.
C10_Witness ==
    /\ ret.op = "get_u64" /\ ret.self = DBHandle
    /\ ~ret.res.ok
    /\ Len(Unwrap(live[CfDefault][ret.key])) > 8
    /\ \E i \in SnapIds :
          /\ Alive(i)
          /\ ~get_u64(i, ret.key).ok
          /\ Len(Unwrap(view[i][CfDefault][ret.key])) < 8
    /\ \E k \in StoreKeys : get_u64(DBHandle, k) = Ok(None)

----------------------------------------------------------------------------
(* SpecRound: integers written with put_u64 and put_i64 and read back *)

WriteRound ==
    \/ \E k \in PointKeys, n \in U64s : put_u64(k, n)
    \/ \E k \in PointKeys, n \in I64s : put_i64(k, n)
    \/ \E k \in PointKeys : del(k)

NextRound ==
    \/ WriteRound
    \/ \E i \in ScanSnaps : Snapshot_new(i)
    \/ \E i \in ScanSnaps : drop_Snapshot(i)
    \/ \E self \in Readers, k \in PointKeys : Call_get_value(self, k)
    \/ \E self \in Readers, k \in PointKeys : Call_get_u64(self, k)
    \/ \E self \in Readers, k \in PointKeys : Call_get_i64(self, k)

SpecRound == Init /\ [][NextRound]_vars

\* a + b modulo 2^64, limb by limb with carry
U64Plus(a, b) ==
    LET s4 == a[4] + b[4]
        s3 == a[3] + b[3] + s4 \div Limb
        s2 == a[2] + b[2] + s3 \div Limb
        s1 == a[1] + b[1] + s2 \div Limb
    IN  <<s1 % Limb, s2 % Limb, s3 % Limb, s4 % Limb>>

\* u is the i64 n modulo 2^64: n itself when n >= 0, and the u with
\* u + |n| = 2^64 when n < 0 (its top bit is then set)
SameBits(u, n) ==
    IF n.neg
    THEN U64Plus(u, n.mag) = U64Zero /\ u[1] >= Limb \div 2
    ELSE u = n.mag /\ u[1] < Limb \div 2

\* a - b modulo 2^64, limb by limb with borrow
U64Minus(a, b) ==
    LET d4 == a[4] - b[4]
        d3 == a[3] - b[3] - (IF d4 < 0 THEN 1 ELSE 0)
        d2 == a[2] - b[2] - (IF d3 < 0 THEN 1 ELSE 0)
        d1 == a[1] - b[1] - (IF d2 < 0 THEN 1 ELSE 0)
    IN  <<(d1 + Limb) % Limb, (d2 + Limb) % Limb,
          (d3 + Limb) % Limb, (d4 + Limb) % Limb>>

\* the i64 with the bits of the u64 u, and the u64 with the bits of the
\* i64 n
SignedOf(u) ==
    IF u[1] < Limb \div 2 THEN [neg |-> FALSE, mag |-> u]
    ELSE [neg |-> TRUE, mag |-> U64Minus(U64Zero, u)]
UnsignedOf(n) == IF n.neg THEN U64Minus(U64Zero, n.mag) ELSE n.mag

\* C11: on every step that is put_u64(k, n), the value stored for k is 8
\* bytes long, get_u64(k) then returns n and get_i64(k) the i64 with the
\* same bits; on every step that is put_i64(k, n), get_i64(k) then
\* returns n and get_u64(k) returns n modulo 2^64 (u64::MAX for -1); a
\* Snapshot taken before the step still reads what it read.
C11_IntegerRoundTrip ==
    [][\A k \in PointKeys :
          /\ \A n \in U64s : put_u64(k, n) =>
                /\ Len(Unwrap(get_value(DBHandle, k).val))' = 8
                /\ get_u64(DBHandle, k)' = Ok(Some(n))
                /\ SameBits(n, SignedOf(n))
                /\ get_i64(DBHandle, k)' = Ok(Some(SignedOf(n)))
          /\ \A n \in I64s : put_i64(k, n) =>
                /\ Len(Unwrap(get_value(DBHandle, k).val))' = 8
                /\ get_i64(DBHandle, k)' = Ok(Some(n))
                /\ SameBits(UnsignedOf(n), n)
                /\ get_u64(DBHandle, k)' = Ok(Some(UnsignedOf(n)))
                /\ (n = [neg |-> TRUE, mag |-> U64One]) =>
                      get_u64(DBHandle, k)' = Ok(Some(U64Max))
          /\ (\E n \in U64s : put_u64(k, n)) =>
                \A i \in SnapIds : Alive(i) =>
                    /\ get_u64(i, k)' = get_u64(i, k)
                    /\ get_i64(i, k)' = get_i64(i, k)]_vars

\* get_u64 has just returned u64::MAX on the live handle for a key whose
\* get_i64 is -1, while a held Snapshot still fails to decode the value
\* it sees for the key.
C11_Witness ==
    /\ ret.op = "get_u64" /\ ret.self = DBHandle
    /\ ret.res = Ok(Some(U64Max))
    /\ get_i64(DBHandle, ret.key) = Ok(Some([neg |-> TRUE, mag |-> U64One]))
    /\ \E i \in SnapIds : Alive(i) /\ ~get_u64(i, ret.key).ok

----------------------------------------------------------------------------
(* Shared ownership *)

\* C12: the owners of a SyncSnapshot share one Snapshot and one marker.  A
\* marker is acquired only by a step that creates a Snapshot object, so
\* clone acquires none; as long as one owner is left the marker is
\* unreleased and every lookup, seek and scan through the SyncSnapshot, by
\* whichever owner, returns what the store held when it was created,
\* whatever was written on the live handle and however many other owners
\* were added or dropped.
C12_ClonesShareOneView ==
    /\ [](\A i \in SnapIds : snaps[i].st = "shared" =>
            /\ snaps[i].owners \in 1..MaxOwners
            /\ snaps[i].snap \in 1..Len(markers)
            /\ markers[snaps[i].snap].rel = 0
            /\ DefaultReads(i) = ReadsOf(view[i][CfDefault])
            /\ \A c \in CfNames \ {CfDefault} :
                  CfReads(i, c) = ReadsOf(view[i][c]))
    /\ [][/\ Len(markers') > Len(markers) =>
                /\ Len(markers') = Len(markers) + 1
                /\ \E i \in SnapIds : snaps[i].st = "none" /\ snaps'[i].st # "none"
          /\ \A i \in SnapIds :
                (snaps[i].st = "shared" /\ snaps'[i].st = "shared") =>
                    /\ snaps'[i].snap = snaps[i].snap
                    /\ view'[i] = view[i]]_vars

\* A get through a SyncSnapshot with two owners has just returned a value
\* the live handle no longer has, a second Snapshot having been dropped.
C12_Witness ==
    /\ ret.op = "get_value" /\ ret.self \in SnapIds
    /\ snaps[ret.self].st = "shared" /\ snaps[ret.self].owners = 2
    /\ ret.res.ok
    /\ ret.res.val # live[CfDefault][ret.key]
    /\ \E j \in SnapIds : snaps[j].st = "dropped"

----------------------------------------------------------------------------
(* SpecRO: every operation of a Snapshot, of a SyncSnapshot and of the
   live handle, with two Snapshots of which the second can be shared *)

ROSnaps == {1, 2}
ROShared == {2}

NextRO ==
    \/ \E k \in PointKeys : put(k, ValV2)
    \/ \E i \in ROSnaps : Snapshot_new(i)
    \/ \E i \in ROShared : SyncSnapshot_new(i)
    \/ \E i \in ROShared : into_sync(i)
    \/ \E i \in ROShared : SyncSnapshot_clone(i)
    \/ \E i \in ROSnaps : drop_Snapshot(i)
    \/ \E i \in ROShared : drop_SyncSnapshot(i)
    \/ \E self \in Readers, k \in PointKeys : Call_get_value(self, k)
    \/ \E self \in Readers, k \in PointKeys : Call_get_value_cf(self, "cf", k)
    \/ \E self \in Readers, k \in PointKeys : Call_get_msg(self, k)
    \/ \E self \in Readers, k \in PointKeys : Call_get_msg_cf(self, "cf", k)
    \/ \E self \in Readers, k \in PointKeys : Call_get_u64(self, k)
    \/ \E self \in Readers, k \in PointKeys : Call_get_i64(self, k)
    \/ \E self \in Readers : Call_cf_handle(self, "cf")
    \/ \E self \in Readers : Call_new_iterator(self)
    \/ \E self \in Readers : Call_new_iterator_cf(self, "cf")
    \/ \E self \in Readers, k \in PointKeys : Call_seek(self, k)
    \/ \E self \in Readers, k \in PointKeys : Call_seek_cf(self, "cf", k)
    \/ \E self \in Readers, cf \in ScanCfs :
          scan_begin(self, cf, KeyA3, KeyMax, FALSE)
    \/ \E r \in Answers, fail \in BOOLEAN : scan_turn(r, fail)
    \/ scan_exit

SpecRO == Init /\ [][NextRO]_vars

\* the key/value contents a data source shows: every key's value in the
\* default space and in each column family
Contents(self) ==
    [c \in CfNames |-> [k \in StoreKeys |->
        IF c = CfDefault THEN get_value(self, k) ELSE get_value_cf(self, c, k)]]

\* the step is an operation of a Snapshot or SyncSnapshot (creation,
\* into_sync, clone, drop), a read that returns, or a step of a scan
ReaderStep ==
    \/ snaps' # snaps
    \/ ret'.op # ""
    \/ scan'.st # "idle" /\ scan' # scan

\* C13: a step that is an operation of a Snapshot or SyncSnapshot
\* (creation, into_sync, clone, drop), a read or an iterator operation on
\* a Snapshot or on the live handle, or a step of a scan, writes nothing
\* to the store and leaves the contents as the live handle shows them and
\* as every Snapshot held before and after the step shows them.  (What a
\* data source shows is a function of the log, the markers and the
\* Snapshot objects: a step that leaves those alone leaves it alone.)
C13_SnapshotsReadOnly ==
    [][ReaderStep =>
          /\ log' = log
          /\ live' = live
          /\ \/ UNCHANGED <<log, markers, snaps, view>>
             \/ /\ Contents(DBHandle)' = Contents(DBHandle)
                /\ \A j \in SnapIds : (Alive(j) /\ Alive(j)') =>
                      /\ Contents(j)' = Contents(j)
                      /\ view'[j] = view[j]]_vars

\* A Snapshot has been dropped while another one, taken at another
\* moment, is held and shows contents that differ from the live handle's.
C13_Witness ==
    \E i, j \in SnapIds :
        /\ snaps[i].st = "dropped"
        /\ Alive(j)
        /\ snaps[i].snap > snaps[j].snap
        /\ Contents(j) # Contents(DBHandle)

----------------------------------------------------------------------------
(* SpecIter: an IterOption built step by step.  The builder calls take the
   configuration by value and return it: ret holds the configuration the
   last call returned, and the next call takes it from there.
   build_read_opts borrows it and returns the options next to it. *)

Builders ==
    {"IterOption::new", "IterOption::default", "use_prefix_seek",
     "set_upper_bound", "set_prefix_same_as_start"}
Bounds == {KeyA2, KeyMax}

\* a configuration is at hand, and which
HasConfig == ret.op \in Builders \cup {"build_read_opts"}
Config == IF ret.op = "build_read_opts" THEN ret.res.val.cfg ELSE ret.res.val

Call_IterOption_new(ub, fill_cache) ==
    Returned("IterOption::new", DBHandle, "", <<>>,
             Ok(IterOption_new(ub, fill_cache)))

Call_IterOption_default ==
    Returned("IterOption::default", DBHandle, "", <<>>, Ok(IterOption_default))

Call_use_prefix_seek ==
    /\ HasConfig
    /\ Returned("use_prefix_seek", DBHandle, "", <<>>,
                Ok(use_prefix_seek(Config)))

Call_set_upper_bound(bound) ==
    /\ HasConfig
    /\ Returned("set_upper_bound", DBHandle, "", <<>>,
                Ok(set_upper_bound(Config, bound)))

Call_set_prefix_same_as_start(enable) ==
    /\ HasConfig
    /\ Returned("set_prefix_same_as_start", DBHandle, "", <<>>,
                Ok(set_prefix_same_as_start(Config, enable)))

Call_build_read_opts ==
    /\ HasConfig
    /\ Returned("build_read_opts", DBHandle, "", <<>>,
                Ok([cfg |-> Config, opts |-> build_read_opts(Config)]))

NextIter ==
    \/ \E ub \in {None} \cup {Some(b) : b \in Bounds}, fill_cache \in BOOLEAN :
          Call_IterOption_new(ub, fill_cache)
    \/ Call_IterOption_default
    \/ Call_use_prefix_seek
    \/ \E b \in Bounds : Call_set_upper_bound(b)
    \/ \E enable \in BOOLEAN : Call_set_prefix_same_as_start(enable)
    \/ Call_build_read_opts

SpecIter == Init /\ [][NextIter]_vars

\* the options just built, and the configuration they were built from
Built == ret.res.val.opts
BuiltFrom == ret.res.val.cfg

\* C14, as stated: the built options never carry both prefix-same-as-start
\* and an iterate upper bound.
C14_Stated ==
    ret.op = "build_read_opts" =>
        ~(Built.prefix_same_as_start /\ IsSome(Built.iterate_upper_bound))

\* C14: the built options carry the configuration's upper bound whenever
\* it has one, whether or not they carry prefix-same-as-start; they carry
\* both exactly when the configuration is in prefix mode with
\* prefix_same_as_start enabled and an upper bound set.  What is exclusive
\* is total-order-seek and prefix-same-as-start.
C14_UpperBoundAlwaysApplied ==
    ret.op = "build_read_opts" =>
        /\ Built.iterate_upper_bound = upper_bound(BuiltFrom)
        /\ (Built.prefix_same_as_start /\ IsSome(Built.iterate_upper_bound))
              <=> /\ ~total_order_seek_used(BuiltFrom)
                  /\ BuiltFrom.prefix_same_as_start
                  /\ IsSome(upper_bound(BuiltFrom))
        /\ ~(Built.total_order_seek /\ Built.prefix_same_as_start)

\* Options have been built that carry both prefix-same-as-start and an
\* iterate upper bound.
C14_Witness ==
    /\ ret.op = "build_read_opts"
    /\ Built.prefix_same_as_start
    /\ Built.iterate_upper_bound = Some(KeyA2)

\* C15: the built options have total-order-seek set exactly when the
\* configuration's seek mode is TotalOrder, prefix-same-as-start exactly
\* when it is Prefix with prefix_same_as_start enabled (so never both), the
\* configuration's upper bound whenever it has one, and its fill_cache; a
\* configuration made by new or default is in total order (default:
\* unbounded, cache-filling), a builder call other than use_prefix_seek
\* leaves the seek mode as it was, and use_prefix_seek makes it Prefix,
\* so that no configuration returns to total order.
C15_SeekModePrecedence ==
    /\ [](/\ ret.op = "build_read_opts" =>
                /\ Built.total_order_seek <=> BuiltFrom.seek_mode = TotalOrder
                /\ Built.prefix_same_as_start <=>
                      (BuiltFrom.seek_mode = Prefix
                       /\ BuiltFrom.prefix_same_as_start)
                /\ ~(Built.total_order_seek /\ Built.prefix_same_as_start)
                /\ Built.iterate_upper_bound = BuiltFrom.upper_bound
                /\ Built.fill_cache = BuiltFrom.fill_cache
                /\ Built.snapshot = None
          /\ ret.op \in {"IterOption::new", "IterOption::default"} =>
                /\ ret.res.val.seek_mode = TotalOrder
                /\ ~ret.res.val.prefix_same_as_start
          /\ ret.op = "IterOption::default" =>
                /\ ret.res.val.upper_bound = None
                /\ ret.res.val.fill_cache)
    /\ [][(/\ HasConfig /\ HasConfig'
           /\ ret'.op \notin {"IterOption::new", "IterOption::default"})
          => /\ ret'.op = "use_prefix_seek" => Config'.seek_mode = Prefix
             /\ ret'.op # "use_prefix_seek" =>
                   Config'.seek_mode = Config.seek_mode
             /\ Config.seek_mode = Prefix => Config'.seek_mode = Prefix]_vars

\* Options have been built from a total-order configuration that has
\* prefix_same_as_start enabled and an upper bound: they carry the bound
\* and total-order-seek, and not prefix-same-as-start.
C15_Witness ==
    /\ ret.op = "build_read_opts"
    /\ BuiltFrom.seek_mode = TotalOrder /\ BuiltFrom.prefix_same_as_start
    /\ Built.total_order_seek /\ ~Built.prefix_same_as_start
    /\ Built.iterate_upper_bound = Some(KeyMax)

----------------------------------------------------------------------------
(* SpecOwn: who keeps the store alive *)

NextOwn ==
    \/ \E k \in PointKeys : put(k, ValV2)
    \/ clone_engine
    \/ drop_engine
    \/ \E i \in SnapIds : get_db(i)
    \/ \E i \in SnapIds : Snapshot_new(i)
    \/ \E i \in SnapIds : into_sync(i)
    \/ \E i \in SnapIds : SyncSnapshot_clone(i)
    \/ \E i \in SnapIds : drop_Snapshot(i)
    \/ \E i \in SnapIds : drop_SyncSnapshot(i)
    \/ \E self \in Readers, k \in PointKeys : Call_get_value(self, k)

SpecOwn == Init /\ [][NextOwn]_vars

\* C16: while a Snapshot, or any owner of a SyncSnapshot, exists, the
\* store is open and the Snapshot's marker is unreleased, however many of
\* the handles held outside were dropped; the store is open exactly as
\* long as a handle or a Snapshot is left; and no marker was released
\* against a destroyed store: the drop of the last Snapshot releases its
\* marker before the store goes.
C16_MarkerValidWhileHeld ==
    /\ \A i \in SnapIds : Alive(i) =>
          /\ db.open
          /\ snaps[i].snap \in 1..Len(markers)
          /\ markers[snaps[i].snap].rel = 0
    /\ db.open <=> StrongCount >= 1
    /\ ~db.misused
    /\ \A m \in 1..Len(markers) : markers[m].rel <= 1

\* A get on a Snapshot has just succeeded with no handle left outside the
\* Snapshots, after another Snapshot was dropped.
C16_Witness ==
    /\ db.handles = 0
    /\ ret.op = "get_value" /\ ret.self \in SnapIds /\ ret.res.ok
    /\ IsSome(ret.res.val)
    /\ \E j \in SnapIds : snaps[j].st = "dropped"

----------------------------------------------------------------------------
(* The callback's error *)

\* the scan has returned the error of its callback
ScanFailed == scan.st = "done" /\ ~scan.res.ok /\ scan.res.err = "callback"

\* C17: when the callback returns an error for a pair, the scan returns
\* that error at once: the pair is the last the callback was called for,
\* the pairs delivered up to and including it are the first pairs due in
\* the range, in ascending order, the cursor still stands on it, and the
\* callback is called for no pair after it.  The step that returns the
\* error changes neither the store nor the markers nor any Snapshot.
C17_CallbackErrorPropagated ==
    /\ [](ScanFailed =>
            /\ scan.res = Err("callback")
            /\ scan.out # <<>>
            /\ Len(scan.at) = Len(scan.out)
            /\ IsPrefix(scan.out, ScanDue)
            /\ \A n \in 1..(Len(scan.out) - 1) :
                  BytesLess(scan.out[n][1], scan.out[n + 1][1])
            /\ ~scan.stopped
            /\ scan.it.status = "ok"
            /\ scan.it.pos = Some(scan.out[Len(scan.out)][1]))
    /\ [][/\ (~ScanFailed /\ ScanFailed') =>
                /\ scan.st = "loop"
                /\ scan'.it = scan.it
                /\ scan'.out = Append(scan.out, <<DBIterator_key(scan.it),
                                                 DBIterator_value(scan.it)>>)
                /\ UNCHANGED <<log, markers, snaps, live, view>>
          /\ ScanFailed => (scan'.out = scan.out \/ scan'.out = <<>>)]_vars

\* The callback returned an error for the second of three pairs due, on a
\* Snapshot, after a write on the live handle.
C17_Witness ==
    /\ ScanFailed
    /\ Len(scan.out) = 2
    /\ Len(ScanDue) = 3
    /\ scan.self # DBHandle
    /\ Len(log) > SetupLen

----------------------------------------------------------------------------
(* SpecAgree: seek and scan on one data source *)

AgreeStarts == {KeyA1, KeyA3}
AgreeEnds == {KeyA2, KeyMax}

WriteAgree ==
    \/ put(KeyA3, ValV2)
    \/ del(KeyA1)
    \/ delete_cf("cf", KeyA3)

NextAgree ==
    \/ WriteAgree
    \/ \E i \in ScanSnaps : Snapshot_new(i)
    \/ \E i \in ScanSnaps : drop_Snapshot(i)
    \/ \E self \in Readers, cf \in ScanCfs, s \in AgreeStarts, e \in AgreeEnds :
          scan_begin(self, cf, s, e, FALSE)
    \/ \E r \in {CbTrue, CbFalse} : scan_turn(r, FALSE)
    \/ scan_exit

SpecAgree == Init /\ [][NextAgree]_vars

\* seek for scan's data source, seek_cf for scan_cf's
SeekOf(self, cf, key) ==
    IF IsSome(cf) THEN seek_cf(self, Unwrap(cf), key) ELSE seek(self, key)

\* what a scan over [s, e) delivers first according to seek(s): the pair
\* seek returns when its key is < e, nothing otherwise
SeekInRange(found, e) ==
    IF IsSome(found) /\ BytesLess(Unwrap(found)[1], e) THEN found ELSE None

\* the first pair of a sequence of pairs, None when it is empty
First(pairs) == IF pairs = <<>> THEN None ELSE Some(pairs[1])

\* the scan's data source reads now as it did when the cursor was built:
\* a Snapshot still held, or the live handle with no write since
SourceUnmoved ==
    IF scan.self = DBHandle THEN db.handles >= 1 /\ scan.it.seq = Len(log)
    ELSE Alive(scan.self)

\* C18: on one data source, and for every start s and end e, a scan over
\* [s, e) that keeps every pair and seek(s) both succeed, and the scan's
\* first pair is the pair seek(s) returns when that pair's key is < e;
\* the scan delivers nothing when seek(s) returns None or a key >= e, as
\* it does whenever s >= e.  The same for scan_cf and seek_cf.  A scan in
\* progress or returned, whose source has not moved, has delivered as its
\* first pair the pair seek returns for its start, and a returned scan
\* that never called its callback returned success.
C18_SeekAndScanAgree ==
    /\ \A self \in Readers : \A cf \in ScanCfs : \A s, e \in ArgKeys :
          LET sk == SeekOf(self, cf, s)
              sc == scan_kept(self, cf, s, e)
          IN  /\ sk.ok /\ sc.ok
              /\ First(sc.val) = SeekInRange(sk.val, e)
              /\ ~BytesLess(s, e) => sc.val = <<>>
    /\ (ScanRuns /\ SourceUnmoved) =>
          LET sk == SeekOf(scan.self, scan.cf, scan.start)
          IN  /\ sk.ok
              /\ scan.out # <<>> => First(scan.out) = sk.val
              /\ scan.st = "done" =>
                    /\ First(scan.out) = SeekInRange(sk.val, scan.end)
                    /\ scan.res = Ok(None)

\* A scan whose start is above its end has returned without a call of the
\* callback although seek returns a pair for its start, and the held
\* Snapshot's scan over a range that holds the pair delivers it first.
C18_Witness ==
    /\ scan.st = "done" /\ scan.res.ok /\ scan.out = <<>>
    /\ scan.self # DBHandle /\ Alive(scan.self)
    /\ ~BytesLess(scan.start, scan.end)
    /\ IsSome(SeekOf(scan.self, scan.cf, scan.start).val)
    /\ scan_kept(scan.self, scan.cf, KeyA2, KeyMax).val # <<>>
    /\ Unwrap(SeekOf(scan.self, scan.cf, KeyA2).val)[1] = KeyA3

====
